---- MODULE Spec2Model ----
\* A model of the 6502-class CPU core of src/src/cpu.rs: the CPU struct, its
\* memory array, load / reset / run / interpret and the instruction handlers.
EXTENDS Integers, Sequences, FiniteSets, TLC

\* ---------------------------------------------------------------------------
\* Program constants
\* ---------------------------------------------------------------------------

\* memory: [u8; 0xFFFF] -- the number of bytes of the memory array.
MEM_SIZE == 65535

\* 0x8000, where load copies the program.
PROGRAM_BASE == 32768

\* 0xFFFC, the address of the reset vector.
RESET_VECTOR == 65532

\* The implemented opcodes.
LDA == 169
TAX == 170
CPY == 192
INX == 232
BRK == 0

\* The masks of the status bits the handlers use.
CARRY_MASK == 1
ZERO_MASK == 2
NEGATIVE_MASK == 128

\* ---------------------------------------------------------------------------
\* Bounds and input sets of the model
\* ---------------------------------------------------------------------------

\* Longest program drawn from all byte strings over OpBytes.
MaxProgLen == 3

\* Number of assignments the caller makes to the public register fields.
MaxPokes == 1

\* Bytes no arm of the match decodes.
UnknownOps == {2}

Byte == 0 .. 255

OpBytes == {LDA, TAX, CPY, INX, BRK} \cup UnknownOps

\* Values the caller assigns to a public register field.
PokeValues == {128, 255}

RegisterNames == {"register_a", "register_x", "register_y", "status"}

RECURSIVE SeqsUpTo(_, _)
SeqsUpTo(S, n) ==
    IF n = 0 THEN {<<>>}
    ELSE LET shorter == SeqsUpTo(S, n - 1)
         IN  shorter \cup {Append(s, b) : s \in {t \in shorter : Len(t) = n - 1}, b \in S}

\* Every non-empty program over OpBytes of at most MaxProgLen bytes.
ShortPrograms == SeqsUpTo(OpBytes, MaxProgLen) \ {<<>>}

\* The programs of the unit tests.
TestPrograms ==
    {<<LDA, 5, BRK>>, <<LDA, 0, BRK>>, <<TAX, BRK>>, <<LDA, 192, TAX, INX, BRK>>,
     <<INX, INX, BRK>>, <<INX, BRK>>}

\* Operands of CPY around the values register_y takes.
CpyOperands == {0, 1, 127, 128, 129, 254, 255}

\* [CPY m, BRK]
CpyPrograms == {<<CPY, m, BRK>> : m \in CpyOperands}

\* A program of n bytes: BRK all the way, then INX in its last four bytes.
LongProgram(n) == [i \in 1 .. n |-> IF i > n - 4 THEN INX ELSE BRK]

\* Lengths around the end of the memory array (0x7FFB .. 0x8001).
LongLengths == {32763, 32764, 32765, 32766, 32767, 32768, 32769}

LongPrograms == {LongProgram(n) : n \in LongLengths}

\* Programs handed to interpret.
InterpretPrograms == ShortPrograms \cup TestPrograms \cup CpyPrograms

\* Programs handed to load and load_and_run.
Programs == InterpretPrograms

\* Programs loaded over an earlier program.
Reloads == {<<INX, BRK>>} \cup {<<b>> : b \in UnknownOps}

\* [LDA v, BRK] for every byte v.
LdaPrograms == {<<LDA, v, BRK>> : v \in Byte}

\* [LDA v, TAX, INX, BRK] for every byte v.
ChainPrograms == {<<LDA, v, TAX, INX, BRK>> : v \in Byte}

\* Programs handed to load_and_run and interpret by a CPU just constructed
\* (LongPrograms are handed to load and load_and_run by such a CPU).
BytePrograms == LdaPrograms \cup ChainPrograms

\* ---------------------------------------------------------------------------
\* u8 arithmetic
\* ---------------------------------------------------------------------------

RECURSIVE BitOrN(_, _, _)
\* a | b on the low n bits.
BitOrN(a, b, n) ==
    IF n = 0 THEN 0
    ELSE (IF a % 2 = 1 \/ b % 2 = 1 THEN 1 ELSE 0) + 2 * BitOrN(a \div 2, b \div 2, n - 1)

RECURSIVE BitAndN(_, _, _)
\* a & b on the low n bits.
BitAndN(a, b, n) ==
    IF n = 0 THEN 0
    ELSE (IF a % 2 = 1 /\ b % 2 = 1 THEN 1 ELSE 0) + 2 * BitAndN(a \div 2, b \div 2, n - 1)

BitOr(a, b) == BitOrN(a, b, 16)

BitAnd(a, b) == BitAndN(a, b, 16)

\* ---------------------------------------------------------------------------
\* The CPU struct and its methods, as operators on the struct's value.
\* memory is the MEM_SIZE-byte array, represented by its non-zero cells: an
\* index of 0 .. MEM_SIZE - 1 outside DOMAIN memory holds the 0 that new()
\* fills the array with.  An index >= MEM_SIZE is out of the array's bounds.
\* ---------------------------------------------------------------------------

new ==
    [register_a |-> 0, register_x |-> 0, register_y |-> 0, status |-> 0,
     program_counter |-> 0, memory |-> [a \in {} |-> 0]]

\* self.memory[addr as usize] does not panic.
InBounds(addr) == addr < MEM_SIZE

\* The byte of the array at an index inside its bounds.
Cell(memory, addr) == IF addr \in DOMAIN memory THEN memory[addr] ELSE 0

mem_read(self, addr) == Cell(self.memory, addr)

mem_write(self, addr, data) ==
    [self EXCEPT !.memory =
        [a \in (DOMAIN self.memory \ {addr}) \cup (IF data # 0 THEN {addr} ELSE {})
            |-> IF a = addr THEN data ELSE self.memory[a]]]

\* (hi << 8) | lo of the bytes at pos and pos + 1.
mem_read_u16(self, pos) ==
    LET lo == mem_read(self, pos)
        hi == mem_read(self, pos + 1)
    IN  BitOr((hi * 256) % 65536, lo)

mem_write_u16(self, pos, data) ==
    LET hi == (data \div 256) % 256
        low == BitAnd(data, 255) % 256
    IN  mem_write(mem_write(self, pos, low), pos + 1, hi)

\* update_zero_and_negative_flags with a sticky Zero flag: the else branch
\* that clears it is missing.
update_flags_sticky_zero(self, result) ==
    LET z == IF result = 0
             THEN BitOr(self.status, ZERO_MASK)
             ELSE self.status
        n == IF BitAnd(result, NEGATIVE_MASK) # 0
             THEN BitOr(z, NEGATIVE_MASK)
             ELSE BitAnd(z, 127)
    IN  [self EXCEPT !.status = n]

update_zero_and_negative_flags(self, result) ==
    LET z == IF result = 0
             THEN BitOr(self.status, ZERO_MASK)
             ELSE BitAnd(self.status, 253)
        n == IF BitAnd(result, NEGATIVE_MASK) # 0
             THEN BitOr(z, NEGATIVE_MASK)
             ELSE BitAnd(z, 127)
    IN  [self EXCEPT !.status = n]

set_carry_flag(self) == [self EXCEPT !.status = BitOr(self.status, CARRY_MASK)]

\* lda without the update of the flags.
lda_no_flags(self, value) == [self EXCEPT !.register_a = value]

lda(self, value) ==
    LET s == [self EXCEPT !.register_a = value]
    IN  update_zero_and_negative_flags(s, s.register_a)

\* tax setting the flags from X as it was before the copy.
tax_flags_of_old_x(self) ==
    update_zero_and_negative_flags([self EXCEPT !.register_x = self.register_a],
                                   self.register_x)

tax(self) ==
    LET s == [self EXCEPT !.register_x = self.register_a]
    IN  update_zero_and_negative_flags(s, s.register_x)

\* The 0xc0 arm with >= in its first comparison: Carry on equality too.
cpy_carry_on_equal(self, param) ==
    IF self.register_y >= param THEN set_carry_flag(self)
    ELSE IF self.register_y = param
         THEN [self EXCEPT !.status = BitOr(self.status, ZERO_MASK)]
         ELSE self

\* The 0xc0 arm assigning the flag's mask to status instead of or-ing it in.
cpy_overwrites_status(self, param) ==
    IF self.register_y > param THEN [self EXCEPT !.status = CARRY_MASK]
    ELSE IF self.register_y = param
         THEN [self EXCEPT !.status = ZERO_MASK]
         ELSE self

\* The 0xc0 arm of the match, after the operand fetch.
cpy(self, param) ==
    IF self.register_y > param THEN set_carry_flag(self)
    ELSE IF self.register_y = param
         THEN [self EXCEPT !.status = BitOr(self.status, ZERO_MASK)]
         ELSE self

\* The 0xe8 arm saturating at 0xFF instead of wrapping to 0x00.
inx_saturating(self) ==
    LET x == IF self.register_x < 255 THEN self.register_x + 1 ELSE 255
    IN  update_zero_and_negative_flags([self EXCEPT !.register_x = x], x)

\* The 0xe8 arm of the match.
inx(self) ==
    LET s == [self EXCEPT !.register_x =
                 IF self.register_x < 255 THEN self.register_x + 1 ELSE 0]
    IN  update_zero_and_negative_flags(s, s.register_x)

\* The slice self.memory[0x8000 .. 0x8000 + program.len()] is out of range.
load_panics(program) == PROGRAM_BASE + Len(program) > MEM_SIZE

\* load that zeroes the rest of the array before the copy.
load_clears_region(self, program) ==
    LET range == PROGRAM_BASE .. (PROGRAM_BASE + Len(program) - 1)
        copied == [a \in {a \in range : program[a - PROGRAM_BASE + 1] # 0}
                     |-> program[a - PROGRAM_BASE + 1]]
    IN  mem_write_u16([self EXCEPT !.memory = copied], RESET_VECTOR, PROGRAM_BASE)

\* load writing the reset vector before it copies the program.
load_vector_first(self, program) ==
    LET v == mem_write_u16(self, RESET_VECTOR, PROGRAM_BASE)
        range == PROGRAM_BASE .. (PROGRAM_BASE + Len(program) - 1)
        copied == [a \in (DOMAIN v.memory \ range)
                         \cup {a \in range : program[a - PROGRAM_BASE + 1] # 0}
                     |-> IF a \in range THEN program[a - PROGRAM_BASE + 1]
                         ELSE v.memory[a]]
    IN  [v EXCEPT !.memory = copied]

load(self, program) ==
    LET range == PROGRAM_BASE .. (PROGRAM_BASE + Len(program) - 1)
        copied == [a \in (DOMAIN self.memory \ range)
                         \cup {a \in range : program[a - PROGRAM_BASE + 1] # 0}
                     |-> IF a \in range THEN program[a - PROGRAM_BASE + 1]
                         ELSE self.memory[a]]
    IN  mem_write_u16([self EXCEPT !.memory = copied], RESET_VECTOR, PROGRAM_BASE)

\* reset without the clearing of status.
reset_keeps_status(self) ==
    [self EXCEPT !.register_a = 0, !.register_x = 0, !.register_y = 0,
                 !.program_counter = mem_read_u16(self, RESET_VECTOR)]

reset(self) ==
    [self EXCEPT !.register_a = 0, !.register_x = 0, !.register_y = 0,
                 !.status = 0,
                 !.program_counter = mem_read_u16(self, RESET_VECTOR)]

\* match_exit with a fallback arm that does nothing: the loop goes on.
match_exit_fallback_nop(opscode) ==
    CASE opscode = BRK -> "return"
      [] OTHER -> "next"

\* How the arm of the match for an opcode ends the turn of the loop: "next"
\* (the loop goes on), "return" (the BRK arm) or "todo" (the todo!() of the
\* fallback arm, a panic).
match_exit(opscode) ==
    CASE opscode \in {LDA, TAX, CPY, INX} -> "next"
      [] opscode = BRK -> "return"
      [] OTHER -> "todo"

\* has_param without the 0xc0 arm: CPY fetches no operand.
has_param_lda_only(opscode) == opscode = LDA

\* The arms of the match that fetch an operand byte into param.
has_param(opscode) == opscode \in {LDA, CPY}

\* arm with a 0x00 arm that sets the Break flag (bit 4) before it returns.
arm_brk_sets_break(self, opscode, param) ==
    CASE opscode = LDA -> lda(self, param)
      [] opscode = TAX -> tax(self)
      [] opscode = CPY -> cpy(self, param)
      [] opscode = INX -> inx(self)
      [] opscode = BRK -> [self EXCEPT !.status = BitOr(self.status, 16)]
      [] OTHER -> self

\* arm without the 0xAA arm.
arm_without_tax(self, opscode, param) ==
    CASE opscode = LDA -> lda(self, param)
      [] opscode = CPY -> cpy(self, param)
      [] opscode = INX -> inx(self)
      [] OTHER -> self

\* The arm of the match for an opcode, after its fetches (param is -1 for an
\* arm that fetches none); BRK and the fallback arm leave the struct alone.
arm(self, opscode, param) ==
    CASE opscode = LDA -> lda(self, param)
      [] opscode = TAX -> tax(self)
      [] opscode = CPY -> cpy(self, param)
      [] opscode = INX -> inx(self)
      [] OTHER -> self

\* run_turn without the increment of the counter after the opcode fetch.
run_turn_no_advance(self) ==
    LET pc == self.program_counter
    IN  IF ~InBounds(pc)
        THEN [cpu |-> self, opscode |-> -1, param |-> -1, exit |-> "index"]
        ELSE
        LET opscode == mem_read(self, pc)
            s2 == [self EXCEPT !.program_counter = pc + 1]
        IN  IF has_param(opscode)
            THEN LET param == mem_read(self, pc)
                 IN  [cpu |-> arm(s2, opscode, param), opscode |-> opscode,
                      param |-> param, exit |-> match_exit(opscode)]
            ELSE [cpu |-> arm(self, opscode, -1), opscode |-> opscode,
                  param |-> -1, exit |-> match_exit(opscode)]

\* One turn of the loop of run.  The result is the struct after the turn, the
\* locals opscode and param (-1: not fetched), and how the turn ended: as
\* match_exit says, or "index" when mem_read indexes out of the array.
\* mem_read at 0xFFFF panics before the counter is incremented, so the
\* increments of the counter never overflow.
run_turn(self) ==
    LET pc == self.program_counter
    IN  IF ~InBounds(pc)
        THEN [cpu |-> self, opscode |-> -1, param |-> -1, exit |-> "index"]
        ELSE
        LET opscode == mem_read(self, pc)
            s1 == [self EXCEPT !.program_counter = pc + 1]
            s2 == [self EXCEPT !.program_counter = pc + 2]
        IN  IF has_param(opscode)
            THEN IF ~InBounds(pc + 1)
                 THEN [cpu |-> s1, opscode |-> opscode, param |-> -1, exit |-> "index"]
                 ELSE LET param == mem_read(self, pc + 1)
                      IN  [cpu |-> arm(s2, opscode, param), opscode |-> opscode,
                           param |-> param, exit |-> match_exit(opscode)]
            ELSE [cpu |-> arm(s1, opscode, -1), opscode |-> opscode,
                  param |-> -1, exit |-> match_exit(opscode)]

\* The loop of run from its first turn to the turn that leaves it: the result
\* of that last turn.
RECURSIVE run_all(_)
run_all(self) ==
    LET t == run_turn(self)
    IN  IF t.exit = "next" THEN run_all(t.cpu) ELSE t

\* interpret_turn with the operand read at the index of the opcode.
interpret_turn_param_at_opcode(self, program) ==
    LET pc == self.program_counter
    IN  IF ~(pc < Len(program))
        THEN [cpu |-> self, opscode |-> -1, param |-> -1, exit |-> "index"]
        ELSE
        LET opscode == program[pc + 1]
            s1 == [self EXCEPT !.program_counter = pc + 1]
            s2 == [self EXCEPT !.program_counter = pc + 2]
        IN  IF has_param(opscode)
            THEN IF ~(pc + 1 < Len(program))
                 THEN [cpu |-> s1, opscode |-> opscode, param |-> -1, exit |-> "index"]
                 ELSE LET param == program[pc + 1]
                      IN  [cpu |-> arm(s2, opscode, param), opscode |-> opscode,
                           param |-> param, exit |-> match_exit(opscode)]
            ELSE [cpu |-> arm(s1, opscode, -1), opscode |-> opscode,
                  param |-> -1, exit |-> match_exit(opscode)]

\* One turn of the loop of interpret: as run_turn, but the fetches index the
\* program vector, and "index" is an index past its end.  The programs of the
\* model are shorter than 0xFFFF bytes, so the counter never overflows here
\* either.
interpret_turn(self, program) ==
    LET pc == self.program_counter
    IN  IF ~(pc < Len(program))
        THEN [cpu |-> self, opscode |-> -1, param |-> -1, exit |-> "index"]
        ELSE
        LET opscode == program[pc + 1]
            s1 == [self EXCEPT !.program_counter = pc + 1]
            s2 == [self EXCEPT !.program_counter = pc + 2]
        IN  IF has_param(opscode)
            THEN IF ~(pc + 1 < Len(program))
                 THEN [cpu |-> s1, opscode |-> opscode, param |-> -1, exit |-> "index"]
                 ELSE LET param == program[pc + 2]
                      IN  [cpu |-> arm(s2, opscode, param), opscode |-> opscode,
                           param |-> param, exit |-> match_exit(opscode)]
            ELSE [cpu |-> arm(s1, opscode, -1), opscode |-> opscode,
                  param |-> -1, exit |-> match_exit(opscode)]

\* ---------------------------------------------------------------------------
\* State
\* ---------------------------------------------------------------------------

VARIABLES
    cpu,        \* the CPU struct
    state,      \* where the caller is: "Ready" (between calls), "Running" (in
                \* the loop of run), "Interpreting" (in the loop of interpret),
                \* "Returned" (run or interpret returned), "Panicked"
    call,       \* what the caller did last: the method called, or "assign"
    opscode,    \* the local opscode of the last turn of a loop, -1 if none
    param,      \* the local param of the last turn of a loop, -1 if none
    program,    \* the argument of the last load, load_and_run or interpret
    panic,      \* why the thread panicked: "none", "todo", "index"
    entry,      \* the CPU struct as it was when the caller entered the loop
    pokes,      \* number of assignments made to the public register fields
    written,    \* <<addr, data>> of the last mem_write of the caller
    read        \* <<addr, result>> of the last mem_read of the caller

vars == <<cpu, state, call, opscode, param, program, panic, entry, pokes, written, read>>

Init ==
    /\ cpu = new
    /\ state = "Ready"
    /\ call = "new"
    /\ opscode = -1
    /\ param = -1
    /\ program = <<>>
    /\ panic = "none"
    /\ entry = new
    /\ pokes = 0
    /\ written = <<-1, -1>>
    /\ read = <<-1, -1>>

\* No program was loaded: the array is as new() filled it.
Fresh == DOMAIN cpu.memory = {}

\* The CPU is as new() returned it.
Pristine == call = "new"

\* The programs the caller hands to load in the current state.
Loadable ==
    (IF Fresh THEN Programs ELSE Reloads) \cup (IF Pristine THEN LongPrograms ELSE {})

\* The programs the caller hands to load_and_run in the current state.
Runnable == Loadable \cup (IF Pristine THEN BytePrograms ELSE {})

\* The programs the caller hands to interpret in the current state.
Interpretable == InterpretPrograms \cup (IF Pristine THEN BytePrograms ELSE {})

\* cpu.load(program)
Load(p) ==
    /\ state = "Ready"
    /\ call' = "load"
    /\ program' = p
    /\ IF load_panics(p)
       THEN /\ state' = "Panicked"
            /\ panic' = "index"
            /\ cpu' = cpu
       ELSE /\ state' = "Ready"
            /\ panic' = panic
            /\ cpu' = load(cpu, p)
    /\ UNCHANGED <<opscode, param, entry, pokes, written, read>>

\* cpu.reset()
Reset ==
    /\ state = "Ready"
    /\ call' = "reset"
    /\ cpu' = reset(cpu)
    /\ UNCHANGED <<state, opscode, param, program, panic, entry, pokes, written, read>>

\* cpu.register_a = v (or register_x, register_y, status), by the caller
Poke(r, v) ==
    /\ state = "Ready"
    /\ pokes < MaxPokes
    /\ pokes' = pokes + 1
    /\ call' = "assign"
    /\ cpu' = [cpu EXCEPT ![r] = v]
    /\ UNCHANGED <<state, opscode, param, program, panic, entry, written, read>>

\* cpu.run(): the caller enters the loop
Run ==
    /\ state = "Ready"
    /\ state' = "Running"
    /\ call' = "run"
    /\ entry' = cpu
    /\ UNCHANGED <<cpu, opscode, param, program, panic, pokes, written, read>>

\* cpu.load_and_run(program): load, reset, and the caller enters the loop of run
LoadAndRun(p) ==
    /\ state = "Ready"
    /\ call' = "load_and_run"
    /\ program' = p
    /\ IF load_panics(p)
       THEN /\ state' = "Panicked"
            /\ panic' = "index"
            /\ cpu' = cpu
            /\ entry' = entry
       ELSE /\ state' = "Running"
            /\ panic' = panic
            /\ cpu' = reset(load(cpu, p))
            /\ entry' = reset(load(cpu, p))
    /\ UNCHANGED <<opscode, param, pokes, written, read>>

\* cpu.interpret(program): the counter is zeroed and the caller enters the
\* loop.  interpret reads no memory; the caller uses it on a CPU that holds no
\* program.
Interpret(p) ==
    /\ state = "Ready"
    /\ Fresh
    /\ state' = "Interpreting"
    /\ call' = "interpret"
    /\ program' = p
    /\ cpu' = [cpu EXCEPT !.program_counter = 0]
    /\ entry' = [cpu EXCEPT !.program_counter = 0]
    /\ UNCHANGED <<opscode, param, panic, pokes, written, read>>

\* The end of a turn of a loop.
Turn(t) ==
    /\ cpu' = t.cpu
    /\ opscode' = t.opscode
    /\ param' = t.param
    /\ state' = CASE t.exit = "next" -> state
                  [] t.exit = "return" -> "Returned"
                  [] OTHER -> "Panicked"
    /\ panic' = IF t.exit \in {"todo", "index"} THEN t.exit ELSE panic
    /\ UNCHANGED <<call, program, entry, pokes, written, read>>

\* One turn of the loop of run.
RunStep ==
    /\ state = "Running"
    /\ Turn(run_turn(cpu))

\* One turn of the loop of interpret.
InterpretStep ==
    /\ state = "Interpreting"
    /\ Turn(interpret_turn(cpu, program))

Next ==
    \/ \E p \in Loadable : Load(p)
    \/ Reset
    \/ \E r \in RegisterNames, v \in PokeValues : Poke(r, v)
    \/ Run
    \/ \E p \in Runnable : LoadAndRun(p)
    \/ \E p \in Interpretable : Interpret(p)
    \/ RunStep
    \/ InterpretStep

Spec == Init /\ [][Next]_vars

\* ---------------------------------------------------------------------------
\* The memory accessors called on their own (they are private to the module;
\* its tests can call them).
\* ---------------------------------------------------------------------------

\* Addresses handed to the accessors: 0x0000, 0xFFFD .. 0xFFFF.
Addresses == {0, 65533, 65534, 65535}

\* Bytes handed to mem_write.
DataBytes == {0, 255}

\* cpu.mem_write(addr, data)
MemWrite(addr, data) ==
    /\ state = "Ready"
    /\ call' = "mem_write"
    /\ written' = <<addr, data>>
    /\ IF InBounds(addr)
       THEN /\ cpu' = mem_write(cpu, addr, data)
            /\ UNCHANGED <<state, panic>>
       ELSE /\ cpu' = cpu
            /\ state' = "Panicked"
            /\ panic' = "index"
    /\ UNCHANGED <<opscode, param, program, entry, pokes, read>>

\* cpu.mem_read(addr)
MemRead(addr) ==
    /\ state = "Ready"
    /\ call' = "mem_read"
    /\ IF InBounds(addr)
       THEN /\ read' = <<addr, mem_read(cpu, addr)>>
            /\ UNCHANGED <<state, panic>>
       ELSE /\ read' = <<addr, -1>>
            /\ state' = "Panicked"
            /\ panic' = "index"
    /\ UNCHANGED <<cpu, opscode, param, program, entry, pokes, written>>

\* 16-bit values handed to mem_write_u16: 0x1234, 0x8000.
Words == {4660, 32768}

\* cpu.mem_write_u16(pos, data): mem_write(pos, low), then mem_write(pos + 1, hi);
\* the first of them that indexes out of the array panics.
MemWriteU16(pos, data) ==
    /\ state = "Ready"
    /\ call' = "mem_write_u16"
    /\ written' = <<pos, data>>
    /\ IF InBounds(pos) /\ InBounds(pos + 1)
       THEN /\ cpu' = mem_write_u16(cpu, pos, data)
            /\ UNCHANGED <<state, panic>>
       ELSE /\ cpu' = IF InBounds(pos) THEN mem_write(cpu, pos, data % 256) ELSE cpu
            /\ state' = "Panicked"
            /\ panic' = "index"
    /\ UNCHANGED <<opscode, param, program, entry, pokes, read>>

\* cpu.mem_read_u16(pos): mem_read(pos), then mem_read(pos + 1).
MemReadU16(pos) ==
    /\ state = "Ready"
    /\ call' = "mem_read_u16"
    /\ IF InBounds(pos) /\ InBounds(pos + 1)
       THEN /\ read' = <<pos, mem_read_u16(cpu, pos)>>
            /\ UNCHANGED <<state, panic>>
       ELSE /\ read' = <<pos, -1>>
            /\ state' = "Panicked"
            /\ panic' = "index"
    /\ UNCHANGED <<cpu, opscode, param, program, entry, pokes, written>>

NextMem ==
    \/ \E addr \in Addresses, data \in DataBytes : MemWrite(addr, data)
    \/ \E addr \in Addresses : MemRead(addr)
    \/ \E pos \in Addresses, data \in Words : MemWriteU16(pos, data)
    \/ \E pos \in Addresses : MemReadU16(pos)

SpecMem == Init /\ [][NextMem]_vars

\* ---------------------------------------------------------------------------
\* load_and_run of programs that fill the program region: the runs that come
\* to the end of the memory array.
\* ---------------------------------------------------------------------------

\* The length of the longest program load accepts.
MaxLoadLen == MEM_SIZE - PROGRAM_BASE

\* [LDA 0, LDA 0, ...]: LDA at every even offset.
EvenLda == [i \in 1 .. MaxLoadLen |-> IF i % 2 = 1 THEN LDA ELSE 0]

\* [INX, LDA 0, LDA 0, ...]: LDA at every odd offset.
OddLda == [i \in 1 .. MaxLoadLen |-> IF i = 1 THEN INX ELSE IF i % 2 = 0 THEN LDA ELSE 0]

\* A program of 0x7FFF bytes, BRK all the way, with 0xFE, 0xFF at the offsets
\* of the reset vector (0x7FFC, 0x7FFD) and LDA in its last byte, at 0xFFFE.
VectorProgram ==
    [i \in 1 .. MaxLoadLen |->
        CASE i - 1 = RESET_VECTOR - PROGRAM_BASE -> 254
          [] i - 1 = RESET_VECTOR - PROGRAM_BASE + 1 -> 255
          [] i = MaxLoadLen -> LDA
          [] OTHER -> BRK]

FullPrograms == {EvenLda, OddLda, VectorProgram}

NextFull ==
    \/ \E p \in FullPrograms \cup TestPrograms : LoadAndRun(p)
    \/ RunStep

SpecFull == Init /\ [][NextFull]_vars

\* ---------------------------------------------------------------------------
\* load_and_run alone, with the loop of run going on as long as it has a turn
\* to take: the thread is not suspended inside the loop.
\* ---------------------------------------------------------------------------

NextRun ==
    \/ \E p \in Runnable : LoadAndRun(p)
    \/ RunStep

SpecRun == Init /\ [][NextRun]_vars

FairSpecRun == SpecRun /\ WF_vars(RunStep)

TypeOK ==
    /\ cpu.register_a \in Byte
    /\ cpu.register_x \in Byte
    /\ cpu.register_y \in Byte
    /\ cpu.status \in Byte
    /\ cpu.program_counter \in 0 .. 65535
    /\ \A a \in DOMAIN cpu.memory : a \in 0 .. MEM_SIZE - 1 /\ cpu.memory[a] \in 1 .. 255

\* ---------------------------------------------------------------------------
\* Properties
\* ---------------------------------------------------------------------------

\* Bit k of the byte s.
Bit(s, k) == (s \div (2 ^ k)) % 2

\* The caller is in the loop of run or interpret.
InLoop == state \in {"Running", "Interpreting"}

\* C1: load_and_run of [LDA v, BRK] returns normally with register_a = v, the
\* Zero flag set iff v = 0 and the Negative flag set iff bit 7 of v is 1, for
\* every byte v.
C1_LdaImmediate ==
    (/\ call = "load_and_run"
     /\ Len(program) = 3 /\ program[1] = LDA /\ program[3] = BRK
     /\ state # "Running")
    => LET v == program[2]
       IN  /\ state = "Returned"
           /\ cpu.register_a = v
           /\ (Bit(cpu.status, 1) = 1) <=> (v = 0)
           /\ (Bit(cpu.status, 7) = 1) <=> (v >= 128)

\* load_and_run of [LDA 0x80, BRK] has returned.
C1_Witness ==
    /\ call = "load_and_run" /\ state = "Returned"
    /\ program = <<LDA, 128, BRK>> /\ cpu.register_a = 128

\* C2: right after an LDA, TAX or INX of run completes, the Zero flag says
\* whether the result (A for LDA, X for TAX and INX) is 0 and the Negative
\* flag is bit 7 of the result, whatever status was before.
C2_FlagsNotSticky ==
    (call \in {"run", "load_and_run"} /\ state = "Running" /\ opscode \in {LDA, TAX, INX})
    => LET result == IF opscode = LDA THEN cpu.register_a ELSE cpu.register_x
       IN  /\ (Bit(cpu.status, 1) = 1) <=> (result = 0)
           /\ Bit(cpu.status, 7) = Bit(result, 7)

\* An INX of run completed after the caller had set every bit of status: both
\* flags were cleared.
C2_Witness ==
    /\ call = "run" /\ state = "Running" /\ opscode = INX
    /\ entry.status = 255 /\ cpu.status = 125 /\ cpu.register_x = 1

\* C3: CPY m sets Carry whenever register_y >= m, also when register_y = m,
\* and sets Zero whenever register_y = m.
C3_CpyCarryOnGreaterOrEqual ==
    (InLoop /\ opscode = CPY /\ param # -1)
    => /\ (cpu.register_y >= param) => (Bit(cpu.status, 0) = 1)
       /\ (cpu.register_y = param) => (Bit(cpu.status, 1) = 1)

\* C4: a fetched byte that is no implemented opcode stops run with a panic;
\* the registers and status stay as the last completed instruction left them,
\* and nothing is executed after a panic.
C4_UnknownOpcodeStops ==
    [][/\ state # "Panicked"
       /\ (state = "Running" /\ opscode' \notin {LDA, TAX, CPY, INX, BRK, -1})
          => /\ state' = "Panicked" /\ panic' = "todo"
             /\ cpu'.register_a = cpu.register_a
             /\ cpu'.register_x = cpu.register_x
             /\ cpu'.register_y = cpu.register_y
             /\ cpu'.status = cpu.status]_vars

\* run stopped at an unknown opcode after an INX had completed.
C4_Witness ==
    /\ call \in {"run", "load_and_run"} /\ state = "Panicked" /\ panic = "todo"
    /\ opscode \in UnknownOps /\ cpu.register_x = 1

\* C5: a mem_read and a mem_write of every address 0x0000 .. 0xFFFF succeed,
\* and a mem_read of the address written last returns the byte written.
C5_EveryAddressAccessible ==
    /\ (call \in {"mem_read", "mem_write"}) => (state # "Panicked")
    /\ (call = "mem_read" /\ read[1] = written[1]) => (read[2] = written[2])

\* C6: after load(program) every byte of the program is in memory at
\* 0x8000 + i and the reset vector holds 0x00, 0x80, for every length load
\* accepts.
C6_LoadVerbatim ==
    (call = "load" /\ state = "Ready")
    => /\ \A i \in 1 .. Len(program) :
              Cell(cpu.memory, PROGRAM_BASE + i - 1) = program[i]
       /\ Cell(cpu.memory, 65532) = 0
       /\ Cell(cpu.memory, 65533) = 128

\* C7: load fails for a program that does not fit in 0x8000 .. 0xFFFF and
\* then changes nothing; a program of at most 0x8000 bytes is not rejected.
C7_LoadRejectsOverflowOnly ==
    [][\A p \in Loadable :
          Load(p) => /\ (Len(p) > 32768) => (state' = "Panicked" /\ cpu' = cpu)
                     /\ (Len(p) <= 32768) => (state' # "Panicked")]_vars

\* C8: reset zeroes A, X, Y and status, sets the counter to the little-endian
\* word at 0xFFFC and leaves memory alone; after a load that is 0x8000.
C8_Reset ==
    [][(state = "Ready" /\ call' = "reset")
       => /\ cpu'.register_a = 0 /\ cpu'.register_x = 0 /\ cpu'.register_y = 0
          /\ cpu'.status = 0
          /\ cpu'.program_counter
                = Cell(cpu.memory, 65532) + 256 * Cell(cpu.memory, 65533)
          /\ cpu'.memory = cpu.memory
          /\ (call = "load") => (cpu'.program_counter = 32768)]_vars

\* reset after a load, on a CPU whose register the caller had set before.
C8_Witness ==
    /\ call = "reset" /\ pokes = 1 /\ program # <<>>
    /\ cpu.program_counter = 32768 /\ cpu.status = 0

\* C9: TAX copies A into X, leaves A and Y alone and sets Zero and Negative
\* from the new X, whatever the flags were.
C9_Tax ==
    [][(InLoop /\ opscode' = TAX)
       => /\ cpu'.register_x = cpu.register_a
          /\ cpu'.register_a = cpu.register_a
          /\ cpu'.register_y = cpu.register_y
          /\ (Bit(cpu'.status, 1) = 1) <=> (cpu'.register_x = 0)
          /\ Bit(cpu'.status, 7) = Bit(cpu'.register_x, 7)]_vars

\* TAX of run copied the A the caller had set after reset.
C9_Witness ==
    /\ call = "run" /\ state = "Running" /\ opscode = TAX
    /\ entry.register_a = 128 /\ entry.status = 0 /\ entry.program_counter = 32768
    /\ cpu.register_x = 128 /\ cpu.status = 128

\* The loop was entered at the first byte of the program.
EnteredAtProgram ==
    \/ call = "interpret"
    \/ call \in {"run", "load_and_run"} /\ entry.program_counter = PROGRAM_BASE

\* C10: INX takes X = 0xFF to 0x00 and sets Zero, and any X < 0xFF to X + 1;
\* [INX, INX, BRK] entered with X = 0xFF ends with X = 1, and [INX, BRK]
\* entered with X = 0xFF and status = 0 ends with status = 0b0000_0010.
C10_Inx ==
    [][/\ (InLoop /\ opscode' = INX)
          => /\ (cpu.register_x = 255)
                => (cpu'.register_x = 0 /\ Bit(cpu'.status, 1) = 1)
             /\ (cpu.register_x < 255) => (cpu'.register_x = cpu.register_x + 1)
       /\ (state' = "Returned" /\ EnteredAtProgram' /\ entry'.register_x = 255)
          => /\ (program' = <<INX, INX, BRK>>) => (cpu'.register_x = 1)
             /\ (program' = <<INX, BRK>> /\ entry'.status = 0)
                => (cpu'.status = 2)]_vars

\* interpret of [INX, INX, BRK] entered with X = 0xFF has returned.
C10_Witness ==
    /\ call = "interpret" /\ state = "Returned" /\ program = <<INX, INX, BRK>>
    /\ entry.register_x = 255 /\ cpu.register_x = 1

\* C11: [LDA v, TAX, INX, BRK] through load_and_run and through interpret
\* returns normally with register_a = v and register_x = (v + 1) mod 256, and
\* Zero and Negative are those of the final X, for every byte v.
C11_LdaTaxInx ==
    (/\ call \in {"load_and_run", "interpret"}
     /\ Len(program) = 5 /\ program[1] = LDA /\ program[3] = TAX
     /\ program[4] = INX /\ program[5] = BRK
     /\ ~InLoop)
    => LET v == program[2]
       IN  /\ state = "Returned"
           /\ cpu.register_a = v
           /\ cpu.register_x = (v + 1) % 256
           /\ (v = 192) => (cpu.register_x = 193)
           /\ (Bit(cpu.status, 1) = 1) <=> (cpu.register_x = 0)
           /\ Bit(cpu.status, 7) = Bit(cpu.register_x, 7)

\* interpret of [LDA 0xC0, TAX, INX, BRK] has returned with X = 0xC1.
C11_Witness ==
    /\ call = "interpret" /\ state = "Returned"
    /\ program = <<LDA, 192, TAX, INX, BRK>> /\ cpu.register_x = 193

\* C12: load_and_run of a program load accepts leaves the loop of run, and
\* leaves it by the return of BRK or by the panic of the fallback arm only.
C12_RunTerminates ==
    /\ [](  (call = "load_and_run" /\ ~load_panics(program) /\ state = "Panicked")
          => (panic = "todo"))
    /\ (call = "load_and_run" /\ state = "Running")
          ~> (state \in {"Returned", "Panicked"})

\* load_and_run of [LDA 0xFF, TAX, INX, BRK] has returned.
C12_Witness ==
    /\ call = "load_and_run" /\ state = "Returned"
    /\ program = <<LDA, 255, TAX, INX, BRK>> /\ cpu.program_counter = PROGRAM_BASE + 5

\* C13: in load_and_run of a program load accepts no fetch indexes out of the
\* memory array: the counter fits in 16 bits, the opcode fetch at the counter
\* and the operand fetch after it are inside the array.
C13_FetchesInBounds ==
    (call = "load_and_run" /\ ~load_panics(program))
    => /\ panic # "index"
       /\ cpu.program_counter <= 65535
       /\ (state = "Running")
          => /\ cpu.program_counter < MEM_SIZE
             /\ (Cell(cpu.memory, cpu.program_counter) \in {LDA, CPY})
                => (cpu.program_counter + 1 < MEM_SIZE)

\* load_and_run of a program of 0x7FFF bytes, the longest load accepts, with
\* 0xFE, 0xFF at the offsets of the reset vector and LDA at 0xFFFE: the vector
\* in memory is 0x8000, and the run from there has fetched the BRK at 0x8000
\* and returned.
C13_Witness ==
    /\ call = "load_and_run" /\ program = VectorProgram
    /\ program[RESET_VECTOR - PROGRAM_BASE + 1] = 254
    /\ mem_read_u16(cpu, RESET_VECTOR) = PROGRAM_BASE
    /\ state = "Returned" /\ opscode = BRK
    /\ cpu.program_counter = PROGRAM_BASE + 1

\* C14: for every address a with a and a + 1 in 0x0000 .. 0xFFFF,
\* mem_write_u16(a, v) stores the low byte of v at a and the high byte at
\* a + 1, changes no other byte, and a following mem_read_u16(a) returns v.
C14_Word16RoundTrip ==
    [][/\ (call' = "mem_write_u16" /\ state = "Ready" /\ written'[1] + 1 <= 65535)
          => LET a == written'[1]
                 v == written'[2]
             IN  /\ state' # "Panicked"
                 /\ Cell(cpu'.memory, a) = v % 256
                 /\ Cell(cpu'.memory, a + 1) = v \div 256
                 /\ \A b \in (DOMAIN cpu.memory \cup DOMAIN cpu'.memory) \ {a, a + 1} :
                        Cell(cpu'.memory, b) = Cell(cpu.memory, b)
       /\ (call' = "mem_read_u16" /\ state = "Ready" /\ read'[1] + 1 <= 65535)
          => /\ state' # "Panicked"
             /\ (call = "mem_write_u16" /\ read'[1] = written[1])
                => (read'[2] = written[2])]_vars

\* C15: every instruction of run moves the counter by 1 plus its operand
\* width (LDA, CPY: 2; TAX, INX, BRK: 1); the opcode is the byte at the
\* counter and the operand the byte after it, and an LDA or CPY with operand
\* 0x00 leaves the loop running.
C15_CounterAdvance ==
    [][(/\ state = "Running"
        /\ opscode' \in {LDA, TAX, CPY, INX, BRK}
        /\ state' # "Panicked")
       => /\ opscode' = Cell(cpu.memory, cpu.program_counter)
          /\ (opscode' \in {LDA, CPY})
             => /\ cpu'.program_counter = cpu.program_counter + 2
                /\ param' = Cell(cpu.memory, cpu.program_counter + 1)
                /\ state' = "Running"
          /\ (opscode' \in {TAX, INX, BRK})
             => (cpu'.program_counter = cpu.program_counter + 1)]_vars

\* load_and_run has executed an LDA with operand 0x00 and goes on at the
\* byte after the operand.
C15_Witness ==
    /\ call = "load_and_run" /\ state = "Running" /\ opscode = LDA /\ param = 0
    /\ cpu.program_counter = PROGRAM_BASE + 2

\* C16: BRK makes run return and changes the counter only: A, X, Y, status
\* and memory stay, and the counter is the address of the BRK byte plus 1.
C16_BrkFrame ==
    [][(state = "Running" /\ opscode' = BRK)
       => /\ state' = "Returned"
          /\ Cell(cpu.memory, cpu.program_counter) = BRK
          /\ cpu'.program_counter = cpu.program_counter + 1
          /\ cpu'.register_a = cpu.register_a
          /\ cpu'.register_x = cpu.register_x
          /\ cpu'.register_y = cpu.register_y
          /\ cpu'.status = cpu.status
          /\ cpu'.memory = cpu.memory]_vars

\* run has returned at a BRK after an INX, with the status the caller had set
\* (0x80, Negative) changed by the INX only: no Break flag.
C16_Witness ==
    /\ call = "run" /\ state = "Returned" /\ opscode = BRK
    /\ entry.status = 128 /\ cpu.register_x = 1 /\ cpu.status = 0
    /\ cpu.program_counter = PROGRAM_BASE + 2

\* The bits of the bytes s and t agree outside the bit numbers in ks.
SameBitsExcept(s, t, ks) == \A k \in (0 .. 7) \ ks : Bit(s, k) = Bit(t, k)

\* C17: LDA, TAX and INX change no status bit but Zero and Negative; CPY
\* changes no status bit but Carry and Zero and no register; LDA leaves X and
\* Y, TAX leaves A and Y, INX leaves A and Y.
C17_InstructionFrames ==
    [][(InLoop /\ state' = state)
       => /\ (opscode' \in {LDA, TAX, INX})
             => /\ SameBitsExcept(cpu.status, cpu'.status, {1, 7})
                /\ cpu'.register_y = cpu.register_y
          /\ (opscode' = LDA) => (cpu'.register_x = cpu.register_x)
          /\ (opscode' \in {TAX, INX}) => (cpu'.register_a = cpu.register_a)
          /\ (opscode' = CPY)
             => /\ SameBitsExcept(cpu.status, cpu'.status, {0, 1})
                /\ cpu'.register_a = cpu.register_a
                /\ cpu'.register_x = cpu.register_x
                /\ cpu'.register_y = cpu.register_y]_vars

\* A CPY with register_y = operand completed on a status the caller had set
\* to 0x80: Zero was added, Negative stayed.
C17_Witness ==
    /\ InLoop /\ opscode = CPY /\ param = 0
    /\ entry.status = 128 /\ cpu.status = 130

\* C18: when interpret(program) on a CPU just constructed stops at a BRK or
\* an unknown opcode inside the program, load_and_run(program) on a CPU just
\* constructed stops the same way with equal A, X, Y and status, and its
\* counter is interpret's plus 0x8000.
C18_InterpretEqualsLoadAndRun ==
    (/\ call = "interpret"
     /\ entry = new
     /\ state \in {"Returned", "Panicked"}
     /\ panic # "index")
    => LET r == run_all(reset(load(new, program)))
       IN  /\ (state = "Returned") <=> (r.exit = "return")
           /\ (state = "Panicked") <=> (r.exit = "todo")
           /\ r.cpu.register_a = cpu.register_a
           /\ r.cpu.register_x = cpu.register_x
           /\ r.cpu.register_y = cpu.register_y
           /\ r.cpu.status = cpu.status
           /\ r.cpu.program_counter = cpu.program_counter + PROGRAM_BASE

\* interpret on a CPU just constructed ran LDA 0x00, then stopped at an
\* unknown opcode at the last index of the program.
C18_Witness ==
    /\ call = "interpret" /\ entry = new
    /\ state = "Panicked" /\ panic = "todo"
    /\ program = <<LDA, 0, 2>>
    /\ cpu.register_a = 0 /\ cpu.status = ZERO_MASK /\ cpu.program_counter = 3

\* C19: the loop of run writes no memory (memory stays what it was when run
\* was entered); a step that changes memory is a load or a load_and_run, and
\* it changes no byte outside 0x8000 .. 0x8000 + len - 1 and 0xFFFC, 0xFFFD.
C19_MemoryFrame ==
    [][/\ (state = "Running")
          => (cpu.memory = entry.memory /\ cpu'.memory = cpu.memory)
       /\ (cpu'.memory # cpu.memory)
          => /\ call' \in {"load", "load_and_run"}
             /\ \A a \in (DOMAIN cpu.memory \cup DOMAIN cpu'.memory) :
                    (Cell(cpu'.memory, a) # Cell(cpu.memory, a))
                    => \/ a \in PROGRAM_BASE .. (PROGRAM_BASE + Len(program') - 1)
                       \/ a \in {RESET_VECTOR, RESET_VECTOR + 1}]_vars

\* The one-byte program [0x02] was loaded over a longer program: the second
\* byte of the earlier program is still at 0x8001.
C19_Witness ==
    /\ call = "load" /\ program = <<2>>
    /\ Cell(cpu.memory, PROGRAM_BASE) = 2
    /\ Cell(cpu.memory, PROGRAM_BASE + 1) # 0

\* C20: from the reset of load_and_run on, register_y is 0 and status has no
\* bit set but Zero (bit 1) and Negative (bit 7): Carry is never set.
C20_LoadAndRunStatus ==
    (call = "load_and_run" /\ ~load_panics(program))
    => /\ cpu.register_y = 0
       /\ cpu.status \in {0, ZERO_MASK, NEGATIVE_MASK, ZERO_MASK + NEGATIVE_MASK}
       /\ Bit(cpu.status, 0) = 0

\* load_and_run executed CPY 0x00 with register_y = 0: Zero is set, Carry
\* is not.
C20_Witness ==
    /\ call = "load_and_run" /\ opscode = CPY /\ param = 0
    /\ cpu.register_y = 0 /\ cpu.status = ZERO_MASK

====
